---- MODULE Spec2Model ----
(***************************************************************************)
(* Room / session engine of the gomoku server (app/room.py, app/game.py).  *)
(*                                                                         *)
(* Scheduling model: asyncio, one thread.  A coroutine runs without        *)
(* interruption from one await to the next, so every action below is one   *)
(* such segment: it resumes a task at the await where it is suspended and  *)
(* runs it up to the next await (a send that is started) or to its end.    *)
(* A message is handed to the transport by the segment that starts the     *)
(* send.  asyncio.sleep(d) returns no earlier than d after it was called;  *)
(* the model keeps no wall clock, a sleep may return at any later step.    *)
(*                                                                         *)
(* The requests are the calls of RoomManager's coroutines, at most one at  *)
(* a time per connection, as an endpoint task awaits them.  (The endpoint  *)
(* of app/ws_handler.py itself routes create_room, join_room and           *)
(* leave_room only, lines 28-40.)                                          *)
(***************************************************************************)
EXTENDS Integers, Sequences, FiniteSets, TLC

\* ---------------------------------------------------------------- constants
BOARD_SIZE == 15
TURN_TIMEOUT == 30
TIMER_INTERVAL == 5

\* ------------------------------------------------------------------- bounds
NumConns == 3        \* WebSocket objects that ever connect
MaxRooms == 1        \* Room objects ever created
MaxReconnects == 1   \* successful reconnect calls

Conns == 1..NumConns
RoomIds == 1..MaxRooms

\* The person behind a connection: a player token is known only to the person
\* whose connection received it (tokens are uuid4 values).
User(ws) == ws % 2

None == "none"
Colors == {"black", "white"}

\* Coordinates a client sends in place_stone: two cells of the board and one
\* position outside it.
Cells == {<<7, 4>>, <<8, 4>>, <<7, 15>>}

VARIABLES
    rooms,        \* RoomManager.rooms: room id -> Room object (0: absent)
    ws_to_room,   \* RoomManager._ws_to_room: connection -> room id (0: absent)
    room,         \* heap of Room objects: the fields of Room but game
    game,         \* Room.game of each Room object
    timers,       \* per Room object, the Turn Clock tasks ever created for it
    guards,       \* per Room object, the Disconnect Guard tasks ever created
    conn,         \* per connection, its endpoint task: where it is suspended
    hist,         \* per Room object: terminal writes and game_over broadcasts
    out,          \* the sends started by the last step, in order
    nreconnects   \* successful reconnect calls so far

vars == <<rooms, ws_to_room, room, game, timers, guards, conn, hist, out, nreconnects>>

\* ================================================================= game.py
Other(color) == IF color = "black" THEN "white" ELSE "black"

Coords == 0..(BOARD_SIZE - 1)

DIRECTIONS == <<<<0, 1>>, <<1, 0>>, <<1, 1>>, <<1, -1>>>>

EmptyBoard == [r \in Coords |-> [c \in Coords |-> None]]

GameState ==
    [board |-> EmptyBoard, current_turn |-> "black", move_count |-> 0,
     is_game_over |-> FALSE, winner |-> None]

\* validate_move that does not look at is_game_over.
validate_move_any_time(g, row, col, color) ==
    IF color # g.current_turn THEN "Not your turn"
    ELSE IF row < 0 \/ row >= BOARD_SIZE \/ col < 0 \/ col >= BOARD_SIZE
         THEN "Coordinates out of bounds"
    ELSE IF g.board[row][col] # None THEN "Cell is already occupied"
    ELSE ""

\* "" stands for Python's None return (the move is valid).
validate_move(g, row, col, color) ==
    IF g.is_game_over THEN "Game is already over"
    ELSE IF color # g.current_turn THEN "Not your turn"
    ELSE IF row < 0 \/ row >= BOARD_SIZE \/ col < 0 \/ col >= BOARD_SIZE
         THEN "Coordinates out of bounds"
    ELSE IF g.board[row][col] # None THEN "Cell is already occupied"
    ELSE ""

\* Stones of `color` met from step i on, walking from (row, col) by (dr, dc),
\* as the loops `for i in range(1, 5)` count them.
RECURSIVE extend(_, _, _, _, _, _, _)
extend(board, color, row, col, dr, dc, i) ==
    IF i >= 5 THEN 0
    ELSE LET r == row + dr * i
             c == col + dc * i
         IN  IF r < 0 \/ r >= BOARD_SIZE \/ c < 0 \/ c >= BOARD_SIZE THEN 0
             ELSE IF board[r][c] # color THEN 0
             ELSE 1 + extend(board, color, row, col, dr, dc, i + 1)

\* check_win that counts only forwards along each direction.
check_win_forward(board, row, col) ==
    LET color == board[row][col] IN
    /\ color # None
    /\ \E d \in 1..Len(DIRECTIONS) :
          1 + extend(board, color, row, col, DIRECTIONS[d][1], DIRECTIONS[d][2], 1) >= 5

check_win(board, row, col) ==
    LET color == board[row][col] IN
    /\ color # None
    /\ \E d \in 1..Len(DIRECTIONS) :
          LET dr == DIRECTIONS[d][1]
              dc == DIRECTIONS[d][2]
          IN  1 + extend(board, color, row, col, dr, dc, 1)
                + extend(board, color, row, col, -dr, -dc, 1) >= 5

\* is_draw that needs one move more than the board has cells.
is_draw_after(move_count) == move_count > BOARD_SIZE * BOARD_SIZE

is_draw(move_count) == move_count >= BOARD_SIZE * BOARD_SIZE

\* GameState.place_stone that leaves the turn with the mover.
game_place_stone_same_turn(g, row, col, color) ==
    LET b == [g.board EXCEPT ![row][col] = color]
        n == g.move_count + 1
    IN  IF check_win(b, row, col)
        THEN [g EXCEPT !.board = b, !.move_count = n,
                       !.is_game_over = TRUE, !.winner = color]
        ELSE IF is_draw(n)
        THEN [g EXCEPT !.board = b, !.move_count = n,
                       !.is_game_over = TRUE, !.winner = None]
        ELSE [g EXCEPT !.board = b, !.move_count = n]

\* GameState.place_stone: the game after the call; the call returns
\* is_game_over of the result (True exactly on the two terminal branches).
game_place_stone(g, row, col, color) ==
    LET b == [g.board EXCEPT ![row][col] = color]
        n == g.move_count + 1
    IN  IF check_win(b, row, col)
        THEN [g EXCEPT !.board = b, !.move_count = n,
                       !.is_game_over = TRUE, !.winner = color]
        ELSE IF is_draw(n)
        THEN [g EXCEPT !.board = b, !.move_count = n,
                       !.is_game_over = TRUE, !.winner = None]
        ELSE [g EXCEPT !.board = b, !.move_count = n,
                       !.current_turn = Other(color)]

\* The value GameState.place_stone returns.
place_stone_returns(g, row, col, color) ==
    LET b == [g.board EXCEPT ![row][col] = color] IN
    check_win(b, row, col) \/ is_draw(g.move_count + 1)

\* =============================================================== models.py
RoomCreatedMsg(room_id, token, color) ==
    [type |-> "room_created", room_id |-> room_id, player_token |-> token, color |-> color]
PlayerJoinedMsg(color) == [type |-> "player_joined", color |-> color]
GameStartedMsg(color) == [type |-> "game_started", your_color |-> color]
StonePlacedMsg(row, col, color, next_turn) ==
    [type |-> "stone_placed", row |-> row, col |-> col, color |-> color,
     next_turn |-> next_turn]
GameOverMsg(winner, reason) == [type |-> "game_over", winner |-> winner, reason |-> reason]
\* timer_remaining is left out: the model keeps no wall clock.
StateSyncMsg(board, current_turn, move_count, your_color) ==
    [type |-> "state_sync", board |-> board, current_turn |-> current_turn,
     move_count |-> move_count, your_color |-> your_color]
TurnTimerMsg(remaining) == [type |-> "turn_timer", remaining |-> remaining]
OpponentDisconnectedMsg == [type |-> "opponent_disconnected"]
OpponentReconnectedMsg == [type |-> "opponent_reconnected"]
ErrorMsg(message) == [type |-> "error", message |-> message]

\* One started send: ws.send_json(msg).
Send(ws, msg) == [to |-> ws, msg |-> msg]

\* ================================================================= room.py
\* `owner` is not a field of the code's Player: it records who was given the
\* token, and only limits which connections may present it in reconnect.
Player(ws, token, color) ==
    [ws |-> ws, token |-> token, color |-> color, connected |-> TRUE,
     owner |-> User(ws)]

\* disconnect_tasks is keyed by the token of a player of this room: the key
\* is kept as the player's seat (1 or 2); 0 means no entry.  turn_timer_task
\* and the entries of disconnect_tasks are positions in timers / guards of
\* the Room object; 0 is None.
Room(room_id) ==
    [room_id |-> room_id, players |-> <<>>, game_started |-> FALSE,
     turn_timer_task |-> 0, disconnect_tasks |-> <<0, 0>>]

Token(o, seat) == <<o, seat>>
InvalidToken == <<0, 0>>

\* get_player_by_token that does not compare the token.
get_player_by_token_any(r, token) == IF Len(r.players) > 0 THEN 1 ELSE 0

get_player_by_token(r, token) ==
    IF \E s \in 1..Len(r.players) : r.players[s].token = token
    THEN CHOOSE s \in 1..Len(r.players) :
            /\ r.players[s].token = token
            /\ \A s2 \in 1..(s - 1) : r.players[s2].token # token
    ELSE 0

\* get_player_by_ws that takes a connection nobody holds for the first
\* player's.
get_player_by_ws_or_first(r, ws) ==
    IF \E s \in 1..Len(r.players) : r.players[s].ws = ws
    THEN CHOOSE s \in 1..Len(r.players) :
            /\ r.players[s].ws = ws
            /\ \A s2 \in 1..(s - 1) : r.players[s2].ws # ws
    ELSE IF Len(r.players) > 0 THEN 1 ELSE 0

get_player_by_ws(r, ws) ==
    IF \E s \in 1..Len(r.players) : r.players[s].ws = ws
    THEN CHOOSE s \in 1..Len(r.players) :
            /\ r.players[s].ws = ws
            /\ \A s2 \in 1..(s - 1) : r.players[s2].ws # ws
    ELSE 0

\* get_opponent that finds nobody.
get_opponent_none(r, seat) == 0

\* The first player that is not `seat` itself, as the loop finds it.
get_opponent(r, seat) ==
    IF \E s \in 1..Len(r.players) : s # seat
    THEN CHOOSE s \in 1..Len(r.players) :
            /\ s # seat
            /\ \A s2 \in 1..(s - 1) : s2 = seat
    ELSE 0

get_room_for_ws(ws) ==
    IF ws_to_room[ws] = 0 THEN 0 ELSE rooms[ws_to_room[ws]]

\* Room.broadcast walks the players in order and awaits one send per connected
\* player: the next player at or after seat `from` that is connected now.
next_connected(players, from) ==
    IF \E s \in from..Len(players) : players[s].connected
    THEN CHOOSE s \in from..Len(players) :
            /\ players[s].connected
            /\ \A s2 \in from..(s - 1) : ~players[s2].connected
    ELSE 0

\* ------------------------------------------------------------------ tasks
\* An asyncio task is live until it has returned or cancel() was called on
\* it; a cancelled task gets CancelledError at its await and runs no further
\* line of its body.
done(task) == task.st \in {"done", "cancelled"}

\* A task that has ended (st: "done" or "cancelled") has no local variables
\* any more; of what was recorded about it for the properties, only the record
\* of a task that acted (declared, cleaned) is kept.
ended_task(task, st) ==
    LET acted == task.declared \/ ("cleaned" \in DOMAIN task /\ task.cleaned)
        t1 == [task EXCEPT !.st = st, !.i = 0, !.msg = ErrorMsg("")]
        t2 == IF "remaining" \in DOMAIN task
              THEN [t1 EXCEPT !.remaining = 0,
                              !.started_for = IF acted THEN @ ELSE "black",
                              !.move_seen = acted /\ @]
              ELSE [t1 EXCEPT !.noted = IF acted THEN @
                                        ELSE [on_turn |-> FALSE, answered |-> FALSE,
                                              quiet |-> FALSE, rejoined |-> FALSE]]
    IN  t2

cancel(task) == IF done(task) THEN task ELSE ended_task(task, "cancelled")

\* timer_loop: st is the await it is suspended at (290: the sleep, 295: the
\* turn_timer broadcast, 303: the game_over broadcast).  started_for,
\* move_seen and declared record, for the properties, the color on turn when
\* the task was created, whether a move was accepted while it was live, and
\* whether it wrote the timeout.
timer_loop(turn) ==
    [st |-> "290", remaining |-> TURN_TIMEOUT, i |-> 0, msg |-> TurnTimerMsg(0),
     started_for |-> turn, move_seen |-> FALSE, declared |-> FALSE]

\* _start_turn_timer that does not cancel the task it replaces.
start_turn_timer_uncancelled(tasks, ref, turn) == Append(tasks, timer_loop(turn))

\* _start_turn_timer on the tasks of a Room object whose turn_timer_task is
\* `ref`: the tasks afterwards (the new task is the last one).
start_turn_timer(tasks, ref, turn) ==
    Append(IF ref # 0 THEN [tasks EXCEPT ![ref] = cancel(@)] ELSE tasks,
           timer_loop(turn))

\* The statement `if room.turn_timer_task and not ...done(): ...cancel()`.
cancel_turn_timer(tasks, ref) ==
    IF ref # 0 THEN [tasks EXCEPT ![ref] = cancel(@)] ELSE tasks

Idle(ws) == conn[ws].open /\ conn[ws].pc = "idle"

\* What a disconnect handling notes, for the properties, between the call of
\* handle_disconnect and the end of the grace period: on_turn (the player was on
\* turn in a started, not-over game at the call), answered (a reconnect of the
\* same player succeeded since), quiet (since the call no reconnect succeeded in
\* the room and the opponent stayed connected), and, for a guard, rejoined (the
\* player was marked connected when the guard task was created or has been
\* while it slept).
Noted(on_turn) ==
    [on_turn |-> on_turn, answered |-> FALSE, quiet |-> TRUE, rejoined |-> FALSE]

IdleTask == [open |-> TRUE, pc |-> "idle", o |-> 0, i |-> 0, ended |-> FALSE,
             msg |-> ErrorMsg(""), noted |-> Noted(FALSE)]

\* What is recorded about each Room object for the properties: every write of
\* is_game_over = True with the winner written with it, and every game_over
\* broadcast (a call of Room.broadcast with a GameOverMsg).
NoHistory == [terminals |-> <<>>, announced |-> <<>>]
Terminal(reason, winner) == [reason |-> reason, winner |-> winner]

\* A request answered by one error message and nothing else.
reply_error(ws, message) ==
    /\ out' = <<Send(ws, ErrorMsg(message))>>
    /\ UNCHANGED <<rooms, ws_to_room, room, game, timers, guards, conn, hist, nreconnects>>

\* --------------------------------------------------------------- create_room
\* _generate_room_id draws ids until one is not in rooms.  The await of the
\* room_created send is the last statement: nothing of the state depends on
\* when it returns, so the endpoint task is idle again at once.
create_room(ws, room_id) ==
    /\ Idle(ws)
    /\ Len(room) < MaxRooms
    /\ rooms[room_id] = 0
    /\ LET o == Len(room) + 1
           token == Token(o, 1)
       IN  /\ room' = Append(room, [Room(room_id) EXCEPT
                                      !.players = <<Player(ws, token, "black")>>])
           /\ game' = Append(game, GameState)
           /\ timers' = Append(timers, <<>>)
           /\ guards' = Append(guards, <<>>)
           /\ hist' = Append(hist, NoHistory)
           /\ rooms' = [rooms EXCEPT ![room_id] = o]
           /\ ws_to_room' = [ws_to_room EXCEPT ![ws] = room_id]
           /\ out' = <<Send(ws, RoomCreatedMsg(room_id, token, "black"))>>
           /\ UNCHANGED <<conn, nreconnects>>

\* ----------------------------------------------------------------- join_room
\* The checks of join_room without the one for a full room.
join_room_error_no_full(room_id) ==
    LET o == rooms[room_id] IN
    IF o = 0 THEN "Room not found"
    ELSE IF game[o].is_game_over THEN "Game already ended"
    ELSE ""

\* Lines 118-127: the error join_room replies with ("": none).
join_room_error(room_id) ==
    LET o == rooms[room_id] IN
    IF o = 0 THEN "Room not found"
    ELSE IF Len(room[o].players) >= 2 THEN "Room is full"
    ELSE IF game[o].is_game_over THEN "Game already ended"
    ELSE ""

\* Lines 118-135: up to the await of the joiner's room_created send.
join_room(ws, room_id) ==
    /\ Idle(ws)
    /\ IF join_room_error(room_id) # ""
       THEN reply_error(ws, join_room_error(room_id))
       ELSE LET o == rooms[room_id]
                token == Token(o, Len(room[o].players) + 1)
            IN  /\ room' = [room EXCEPT ![o].players =
                                Append(@, Player(ws, token, "white"))]
                /\ ws_to_room' = [ws_to_room EXCEPT ![ws] = room_id]
                /\ out' = <<Send(ws, RoomCreatedMsg(room_id, token, "white"))>>
                /\ conn' = [conn EXCEPT ![ws] = [@ EXCEPT !.pc = "join_room:135", !.o = o]]
                /\ UNCHANGED <<rooms, game, timers, guards, hist, nreconnects>>

\* Lines 139-151, resumed after an await: 135 (joiner notified), 141 (host
\* notified) or 146 (game_started sent to player i).
join_room_resume(ws) ==
    /\ conn[ws].pc \in {"join_room:135", "join_room:141", "join_room:146"}
    /\ LET o == conn[ws].o
           pc == conn[ws].pc
           P == room[o].players
           host == P[1]
           notify == pc = "join_room:135" /\ host.connected
           from == IF pc = "join_room:146" THEN conn[ws].i + 1 ELSE 1
           j == IF notify THEN 0 ELSE next_connected(P, from)
           finishing == ~notify /\ j = 0
           r1 == IF pc = "join_room:146" \/ notify THEN room[o]
                 ELSE [room[o] EXCEPT !.game_started = TRUE]
       IN  /\ out' = IF notify THEN <<Send(host.ws, PlayerJoinedMsg("white"))>>
                     ELSE IF j # 0 THEN <<Send(P[j].ws, GameStartedMsg(P[j].color))>>
                     ELSE <<>>
           /\ conn' = [conn EXCEPT ![ws] =
                         IF notify THEN [@ EXCEPT !.pc = "join_room:141"]
                         ELSE IF j # 0 THEN [@ EXCEPT !.pc = "join_room:146", !.i = j]
                         ELSE [IdleTask EXCEPT !.open = conn[ws].open]]
           /\ room' = [room EXCEPT ![o] =
                         IF finishing
                         THEN [r1 EXCEPT !.turn_timer_task = Len(timers[o]) + 1]
                         ELSE r1]
           /\ timers' = IF finishing
                        THEN [timers EXCEPT ![o] =
                                start_turn_timer(@, room[o].turn_timer_task,
                                                 game[o].current_turn)]
                        ELSE timers
           /\ UNCHANGED <<rooms, ws_to_room, game, guards, hist, nreconnects>>

\* --------------------------------------------------------------- place_stone
\* Lines 178-195 from the point where the stone_placed broadcast (phase "178")
\* or the game_over broadcast (phase "187") is about to look at seat `from`.
\* g, tasks and h are room.game, the Turn Clock tasks and the record of the
\* Room object as this segment has them so far.
place_stone_continue(ws, o, g, tasks, h, phase, from, ended, placed) ==
    LET P == room[o].players
        ref == room[o].turn_timer_task
        j1 == IF phase = "178" THEN next_connected(P, from) ELSE 0
        over == j1 = 0 /\ ended
        reason == IF g.winner # None THEN "five_in_row" ELSE "draw"
        game_over == IF phase = "187" THEN conn[ws].msg ELSE GameOverMsg(g.winner, reason)
        j2 == IF over THEN next_connected(P, IF phase = "187" THEN from ELSE 1) ELSE 0
        returns == j1 = 0 /\ j2 = 0
    IN  /\ out' = IF j1 # 0 THEN <<Send(P[j1].ws, placed)>>
                  ELSE IF j2 # 0 THEN <<Send(P[j2].ws, game_over)>>
                  ELSE <<>>
        /\ conn' = [conn EXCEPT ![ws] =
                      IF j1 # 0
                      THEN [@ EXCEPT !.pc = "place_stone:178", !.o = o, !.i = j1,
                                     !.ended = ended, !.msg = placed]
                      ELSE IF j2 # 0
                      THEN [@ EXCEPT !.pc = "place_stone:187", !.o = o, !.i = j2,
                                     !.ended = ended, !.msg = game_over]
                      ELSE [IdleTask EXCEPT !.open = conn[ws].open]]
        /\ hist' = [hist EXCEPT ![o] =
                      IF over /\ phase = "178"
                      THEN [h EXCEPT !.announced = Append(@, Terminal(reason, g.winner))]
                      ELSE h]
        /\ timers' = [timers EXCEPT ![o] =
                        IF ~returns THEN tasks
                        ELSE IF ended THEN cancel_turn_timer(tasks, ref)
                        ELSE start_turn_timer(tasks, ref, g.current_turn)]
        /\ room' = IF returns /\ ~ended
                   THEN [room EXCEPT ![o].turn_timer_task = Len(tasks) + 1]
                   ELSE room

\* The live Turn Clock tasks of a room note that a move was accepted.
note_move(tasks) ==
    [t \in 1..Len(tasks) |->
        IF done(tasks[t]) THEN tasks[t] ELSE [tasks[t] EXCEPT !.move_seen = TRUE]]

\* Lines 154-180: up to the first await.
place_stone(ws, row, col) ==
    /\ Idle(ws)
    /\ LET o == get_room_for_ws(ws) IN
       IF o = 0 THEN reply_error(ws, "Not in a room")
       ELSE IF ~room[o].game_started THEN reply_error(ws, "Game not started yet")
       ELSE LET seat == get_player_by_ws(room[o], ws) IN
            IF seat = 0
            THEN /\ out' = <<>>
                 /\ UNCHANGED <<rooms, ws_to_room, room, game, timers, guards, conn,
                                hist, nreconnects>>
            ELSE LET color == room[o].players[seat].color
                     error == validate_move(game[o], row, col, color)
                 IN  IF error # "" THEN reply_error(ws, error)
                     ELSE LET g == game_place_stone(game[o], row, col, color)
                              game_ended == place_stone_returns(game[o], row, col, color)
                              next_turn == IF game_ended THEN None ELSE g.current_turn
                              h == IF g.is_game_over
                                   THEN [hist[o] EXCEPT !.terminals =
                                           Append(@, Terminal(IF g.winner # None
                                                              THEN "five_in_row"
                                                              ELSE "draw", g.winner))]
                                   ELSE hist[o]
                          IN  /\ game' = [game EXCEPT ![o] = g]
                              /\ place_stone_continue(ws, o, g, note_move(timers[o]), h,
                                    "178", 1, game_ended,
                                    StonePlacedMsg(row, col, color, next_turn))
                              /\ UNCHANGED <<rooms, ws_to_room, guards, nreconnects>>

place_stone_resume(ws) ==
    /\ conn[ws].pc \in {"place_stone:178", "place_stone:187"}
    /\ LET o == conn[ws].o IN
       /\ place_stone_continue(ws, o, game[o], timers[o], hist[o],
             IF conn[ws].pc = "place_stone:178" THEN "178" ELSE "187",
             conn[ws].i + 1, conn[ws].ended, conn[ws].msg)
       /\ UNCHANGED <<rooms, ws_to_room, game, guards, nreconnects>>

\* ---------------------------------------------------------------- timer_loop
\* The timeout written without looking at is_game_over.
timeout_applies_unchecked(g) == TRUE

\* A clock that runs out without ever writing the timeout.
timeout_applies_never(g) == FALSE

\* Line 298: the check made before the timeout is written.
timeout_applies(g) == ~g.is_game_over

\* timer_loop from the point where the turn_timer broadcast (phase "295") or
\* the game_over broadcast (phase "303") is about to look at seat `from`;
\* `task` is the task with its local variables as this segment has them.
timer_loop_continue(o, t, task, phase, from) ==
    LET P == room[o].players
        g == game[o]
        j1 == IF phase = "295" THEN next_connected(P, from) ELSE 0
        again == phase = "295" /\ j1 = 0 /\ task.remaining > 0
        timeout == phase = "295" /\ j1 = 0 /\ task.remaining <= 0 /\ timeout_applies(g)
        winner_color == IF g.current_turn = "black" THEN "white" ELSE "black"
        game_over == IF phase = "303" THEN task.msg ELSE GameOverMsg(winner_color, "timeout")
        j2 == IF timeout THEN next_connected(P, 1)
              ELSE IF phase = "303" THEN next_connected(P, from)
              ELSE 0
    IN  /\ out' = IF j1 # 0 THEN <<Send(P[j1].ws, task.msg)>>
                  ELSE IF j2 # 0 THEN <<Send(P[j2].ws, game_over)>>
                  ELSE <<>>
        /\ timers' = [timers EXCEPT ![o][t] =
                        IF j1 # 0 THEN [task EXCEPT !.st = "295", !.i = j1]
                        ELSE IF again THEN [task EXCEPT !.st = "290"]
                        ELSE IF j2 # 0
                        THEN [task EXCEPT !.st = "303", !.i = j2, !.msg = game_over,
                                          !.declared = @ \/ timeout]
                        ELSE ended_task([task EXCEPT !.declared = @ \/ timeout], "done")]
        /\ game' = IF timeout
                   THEN [game EXCEPT ![o] = [@ EXCEPT !.is_game_over = TRUE,
                                                      !.winner = winner_color]]
                   ELSE game
        /\ hist' = IF timeout
                   THEN [hist EXCEPT ![o] =
                           [terminals |-> Append(@.terminals, Terminal("timeout", winner_color)),
                            announced |-> Append(@.announced, Terminal("timeout", winner_color))]]
                   ELSE hist

\* asyncio.sleep returns (line 290): lines 291-295.
timer_loop_wake(o, t) ==
    /\ o \in 1..Len(room) /\ t \in 1..Len(timers[o])
    /\ timers[o][t].st = "290"
    /\ LET remaining == timers[o][t].remaining - TIMER_INTERVAL
           clamped == IF remaining > 0 THEN remaining ELSE 0
           task == [timers[o][t] EXCEPT !.remaining = remaining,
                                        !.msg = TurnTimerMsg(clamped)]
       IN  IF game[o].is_game_over
           THEN /\ timers' = [timers EXCEPT ![o][t] = ended_task(task, "done")]
                /\ out' = <<>>
                /\ UNCHANGED <<game, hist>>
           ELSE timer_loop_continue(o, t, task, "295", 1)
    /\ UNCHANGED <<rooms, ws_to_room, room, guards, conn, nreconnects>>

\* A send of one of the task's broadcasts returns (line 295 or 303).
timer_loop_resume(o, t) ==
    /\ o \in 1..Len(room) /\ t \in 1..Len(timers[o])
    /\ timers[o][t].st \in {"295", "303"}
    /\ timer_loop_continue(o, t, timers[o][t], timers[o][t].st, timers[o][t].i + 1)
    /\ UNCHANGED <<rooms, ws_to_room, room, guards, conn, nreconnects>>

\* ----------------------------------------------------- cleanup_after_timeout
\* The Disconnect Guard task: st is the await it is suspended at (256: the
\* sleep, 261: the game_over broadcast).  player, opponent and room_id are the
\* variables its closure captured; declared and cleaned record whether it wrote
\* the disconnect-loss and whether it called _cleanup_room.
cleanup_after_timeout(player, opponent, room_id, noted) ==
    [st |-> "256", player |-> player, opponent |-> opponent, room_id |-> room_id,
     i |-> 0, msg |-> GameOverMsg(None, "disconnect"),
     noted |-> noted, declared |-> FALSE, cleaned |-> FALSE]

\* _cleanup_room(room_id), on the Room object o registered under room_id (0 if
\* none): what it does to the Turn Clock tasks and to the Disconnect Guard tasks.
\* _cleanup_room that leaves the directory alone.
cleanup_room_rooms_kept(R, room_id) == R

\* Line 272: self.rooms.pop(room_id, None).
cleanup_room_rooms(R, room_id) == [R EXCEPT ![room_id] = 0]

cleanup_room_timers(T, o) ==
    IF o = 0 THEN T
    ELSE [T EXCEPT ![o] = cancel_turn_timer(T[o], room[o].turn_timer_task)]

cleanup_room_guards(G, o) ==
    IF o = 0 THEN G
    ELSE [G EXCEPT ![o] =
            [k \in 1..Len(G[o]) |->
                IF \E s \in 1..2 : room[o].disconnect_tasks[s] = k
                THEN cancel(G[o][k]) ELSE G[o][k]]]

\* While a guard sleeps (or is about to be created) it notes reconnects and
\* the opponent's disconnects.
note_reconnect(n, same_player) ==
    [n EXCEPT !.answered = @ \/ same_player, !.quiet = FALSE]
note_opponent_left(n) == [n EXCEPT !.quiet = FALSE]
note_rejoined(n, connected) == [n EXCEPT !.rejoined = @ \/ connected]

\* ----------------------------------------------------------------- reconnect
Knows(ws, token) ==
    \/ token = InvalidToken
    \/ \E o \in 1..Len(room) : \E s \in 1..Len(room[o].players) :
          room[o].players[s].token = token /\ room[o].players[s].owner = User(ws)

TokenInputs == {Token(o, s) : o \in 1..MaxRooms, s \in 1..2} \cup {InvalidToken}

\* Lines 198-228: up to the await of the state_sync send.
reconnect(ws, room_id, token) ==
    /\ Idle(ws)
    /\ Knows(ws, token)
    /\ LET o == rooms[room_id] IN
       IF o = 0 THEN reply_error(ws, "Room not found")
       ELSE LET seat == get_player_by_token(room[o], token) IN
            IF seat = 0 THEN reply_error(ws, "Invalid player token")
            ELSE LET ref == room[o].disconnect_tasks[seat]
                     player == room[o].players[seat]
                     G == IF ref # 0 THEN [guards[o] EXCEPT ![ref] = cancel(@)]
                          ELSE guards[o]
                 IN  /\ nreconnects < MaxReconnects
                     /\ nreconnects' = nreconnects + 1
                     /\ guards' = [guards EXCEPT ![o] =
                            [k \in 1..Len(G) |->
                                IF G[k].st = "256" \/ guards[o][k].st = "256"
                                THEN [G[k] EXCEPT !.noted =
                                        note_rejoined(
                                            note_reconnect(@, G[k].player = seat),
                                            G[k].st = "256" /\ G[k].player = seat)]
                                ELSE G[k]]]
                     /\ room' = [room EXCEPT ![o].disconnect_tasks[seat] = 0,
                                             ![o].players[seat].ws = ws,
                                             ![o].players[seat].connected = TRUE]
                     /\ ws_to_room' = [ws_to_room EXCEPT ![ws] = room_id]
                     /\ out' = <<Send(ws, StateSyncMsg(game[o].board, game[o].current_turn,
                                                       game[o].move_count, player.color))>>
                     /\ conn' = [c \in Conns |->
                            IF c = ws
                            THEN [conn[c] EXCEPT !.pc = "reconnect:219", !.o = o, !.i = seat]
                            ELSE IF conn[c].pc = "handle_disconnect:252" /\ conn[c].o = o
                            THEN [conn[c] EXCEPT !.noted =
                                    note_reconnect(@, conn[c].i = seat)]
                            ELSE conn[c]]
                     /\ UNCHANGED <<rooms, game, timers, hist>>

\* Lines 230-233, after the state_sync send returned.
reconnect_resume(ws) ==
    /\ conn[ws].pc = "reconnect:219"
    /\ LET o == conn[ws].o
           opponent == get_opponent(room[o], conn[ws].i)
       IN  out' = IF opponent # 0 /\ room[o].players[opponent].connected
                  THEN <<Send(room[o].players[opponent].ws, OpponentReconnectedMsg)>>
                  ELSE <<>>
    /\ conn' = [conn EXCEPT ![ws] = [IdleTask EXCEPT !.open = conn[ws].open]]
    /\ UNCHANGED <<rooms, ws_to_room, room, game, timers, guards, hist, nreconnects>>

\* --------------------------------------------------------- handle_disconnect
\* Lines 236-252 or 236-269, run by an endpoint task whose connections' tasks
\* are C at the call.  websocket_endpoint calls it when the connection is lost
\* (closing: the endpoint task ends with the call) and for a leave_room message
\* (the connection stays open); the clients of Next only ever drop their
\* connection.
handle_disconnect_call(ws, closing, C) ==
    /\ closing => ws_to_room[ws] # 0
    /\ LET room_id == ws_to_room[ws]
           o == IF room_id = 0 THEN 0 ELSE rooms[room_id]
           seat == IF o = 0 THEN 0 ELSE get_player_by_ws(room[o], ws)
           opponent == IF seat = 0 THEN 0 ELSE get_opponent(room[o], seat)
           notify == opponent # 0 /\ room[o].players[opponent].connected
           on_turn == /\ room[o].game_started /\ ~game[o].is_game_over
                      /\ game[o].current_turn = room[o].players[seat].color
           left == [k \in 1..Len(guards[o]) |->
                       IF guards[o][k].st = "256" /\ guards[o][k].opponent = seat
                       THEN [guards[o][k] EXCEPT !.noted = note_opponent_left(@)]
                       ELSE guards[o][k]]
       IN  /\ ws_to_room' = [ws_to_room EXCEPT ![ws] = 0]
           /\ IF seat = 0
              THEN /\ out' = <<>>
                   /\ conn' = [C EXCEPT ![ws].open = ~closing]
                   /\ UNCHANGED <<rooms, room, timers, guards>>
              ELSE /\ room' = [room EXCEPT ![o].players[seat].connected = FALSE]
                   /\ IF notify
                      THEN /\ out' = <<Send(room[o].players[opponent].ws,
                                            OpponentDisconnectedMsg)>>
                           /\ conn' = [c \in Conns |->
                                  IF c = ws
                                  THEN [C[c] EXCEPT !.open = ~closing,
                                           !.pc = "handle_disconnect:252", !.o = o,
                                           !.i = seat, !.noted = Noted(on_turn)]
                                  ELSE IF /\ C[c].pc = "handle_disconnect:252"
                                          /\ C[c].o = o
                                          /\ get_opponent(room[o], C[c].i) = seat
                                  THEN [C[c] EXCEPT !.noted = note_opponent_left(@)]
                                  ELSE C[c]]
                           /\ guards' = [guards EXCEPT ![o] = left]
                           /\ UNCHANGED <<rooms, timers>>
                      ELSE /\ out' = <<>>
                           /\ conn' = [c \in Conns |->
                                  IF c = ws THEN [C[c] EXCEPT !.open = ~closing]
                                  ELSE IF /\ C[c].pc = "handle_disconnect:252"
                                          /\ C[c].o = o
                                          /\ get_opponent(room[o], C[c].i) = seat
                                  THEN [C[c] EXCEPT !.noted = note_opponent_left(@)]
                                  ELSE C[c]]
                           /\ rooms' = cleanup_room_rooms(rooms, room_id)
                           /\ timers' = cleanup_room_timers(timers, o)
                           /\ guards' = cleanup_room_guards([guards EXCEPT ![o] = left], o)
    /\ UNCHANGED <<game, hist, nreconnects>>

\* The call made by an endpoint task that is waiting for a message.
handle_disconnect(ws, closing) ==
    /\ Idle(ws)
    /\ handle_disconnect_call(ws, closing, conn)

\* The joiner's room_created send (line 135) fails.  It is the one send of
\* join_room that is not made through Room.send_to, so the exception leaves
\* join_room there and reaches websocket_endpoint: a WebSocketDisconnect is
\* caught (ws_handler.py:41-42) and handle_disconnect is called; any other
\* exception ends the endpoint task.  Which one send_json raises depends on
\* how the connection broke.
join_room_raise(ws) ==
    /\ conn[ws].pc = "join_room:135"
    /\ \/ handle_disconnect_call(ws, TRUE, [conn EXCEPT ![ws] = IdleTask])
       \/ /\ conn' = [conn EXCEPT ![ws] = [IdleTask EXCEPT !.open = FALSE]]
          /\ out' = <<>>
          /\ UNCHANGED <<rooms, ws_to_room, room, game, timers, guards, hist,
                         nreconnects>>

\* Lines 255-267, after the opponent_disconnected send returned: the task is
\* created and registered under the player's token.
handle_disconnect_resume(ws) ==
    /\ conn[ws].pc = "handle_disconnect:252"
    /\ LET o == conn[ws].o
           seat == conn[ws].i
           opponent == get_opponent(room[o], seat)
       IN  /\ guards' = [guards EXCEPT ![o] =
                  Append(@, cleanup_after_timeout(seat, opponent, room[o].room_id,
                             note_rejoined(conn[ws].noted,
                                           room[o].players[seat].connected)))]
           /\ room' = [room EXCEPT ![o].disconnect_tasks[seat] = Len(guards[o]) + 1]
    /\ conn' = [conn EXCEPT ![ws] = [IdleTask EXCEPT !.open = conn[ws].open]]
    /\ out' = <<>>
    /\ UNCHANGED <<rooms, ws_to_room, game, timers, hist, nreconnects>>

\* cleanup_after_timeout from the point where its game_over broadcast is about
\* to look at seat `from` (from > number of players: the broadcast is over, or
\* there was none) up to the next await or to the end of _cleanup_room.
cleanup_after_timeout_continue(o, k, task, from) ==
    LET P == room[o].players
        j == next_connected(P, from)
        target == rooms[task.room_id]
    IN  IF j # 0
        THEN /\ out' = <<Send(P[j].ws, task.msg)>>
             /\ guards' = [guards EXCEPT ![o][k] = [task EXCEPT !.st = "261", !.i = j]]
             /\ UNCHANGED <<rooms, timers>>
        ELSE /\ out' = <<>>
             /\ rooms' = cleanup_room_rooms(rooms, task.room_id)
             /\ timers' = cleanup_room_timers(timers, target)
             /\ guards' = [cleanup_room_guards(guards, target) EXCEPT ![o][k] =
                              ended_task([task EXCEPT !.cleaned = TRUE], "done")]

\* Line 258: the check made before the disconnect-loss is written.
grace_expired_declares(g, r) == ~g.is_game_over /\ r.game_started

\* asyncio.sleep(60) returns (line 256): lines 257-264.
cleanup_after_timeout_wake(o, k) ==
    /\ o \in 1..Len(room) /\ k \in 1..Len(guards[o])
    /\ guards[o][k].st = "256"
    /\ LET task == guards[o][k]
           player == room[o].players[task.player]
           opponent == room[o].players[task.opponent]
           declare == grace_expired_declares(game[o], room[o])
           game_over == GameOverMsg(opponent.color, "disconnect")
       IN  IF player.connected
           THEN /\ guards' = [guards EXCEPT ![o][k] = ended_task(task, "done")]
                /\ out' = <<>>
                /\ UNCHANGED <<rooms, timers, game, hist>>
           ELSE IF declare
           THEN /\ game' = [game EXCEPT ![o] = [@ EXCEPT !.is_game_over = TRUE,
                                                         !.winner = opponent.color]]
                /\ hist' = [hist EXCEPT ![o] =
                      [terminals |-> Append(@.terminals,
                                            Terminal("disconnect", opponent.color)),
                       announced |-> Append(@.announced,
                                            Terminal("disconnect", opponent.color))]]
                /\ cleanup_after_timeout_continue(o, k,
                      [task EXCEPT !.declared = TRUE, !.msg = game_over], 1)
           ELSE /\ cleanup_after_timeout_continue(o, k, task, Len(room[o].players) + 1)
                /\ UNCHANGED <<game, hist>>
    /\ UNCHANGED <<ws_to_room, room, conn, nreconnects>>

\* A send of the game_over broadcast returns (line 261): on to line 264.
cleanup_after_timeout_resume(o, k) ==
    /\ o \in 1..Len(room) /\ k \in 1..Len(guards[o])
    /\ guards[o][k].st = "261"
    /\ cleanup_after_timeout_continue(o, k, guards[o][k], guards[o][k].i + 1)
    /\ UNCHANGED <<ws_to_room, room, game, conn, hist, nreconnects>>

\* ===================================================== initial states, steps
\* RoomManager(): no room, no connection bound.
Fresh ==
    /\ rooms = [id \in RoomIds |-> 0]
    /\ ws_to_room = [ws \in Conns |-> 0]
    /\ room = <<>> /\ game = <<>> /\ timers = <<>> /\ guards = <<>> /\ hist = <<>>

\* Two positions that play reaches (the second needs 224 accepted moves), each
\* with black on turn and the cell (7, 4) empty:
\*   FourEach: black on (7,0)..(7,3), white on (8,0)..(8,3), as in
\*             test_full_game_flow before black's winning move;
\*   LastCell: every cell but (7, 4) filled, no five in a row anywhere, 112
\*             stones of each color.
FourEach ==
    [GameState EXCEPT
        !.board = [r \in Coords |-> [c \in Coords |->
                      IF r = 7 /\ c <= 3 THEN "black"
                      ELSE IF r = 8 /\ c <= 3 THEN "white" ELSE None]],
        !.move_count = 8]

LastCell ==
    [GameState EXCEPT
        !.board = [r \in Coords |-> [c \in Coords |->
                      IF r = 7 /\ c = 4 THEN None
                      ELSE IF (c + 2 * r + 3) % 4 < 2 THEN "black" ELSE "white"]],
        !.move_count = BOARD_SIZE * BOARD_SIZE - 1]

\* The manager in the middle of such a game: connection 1 created the room,
\* connection 2 joined, the last place_stone has returned and has started the
\* Turn Clock of the turn (the cancelled clocks of earlier turns are left out:
\* a cancelled task runs no further line).
InPlay(g) ==
    /\ rooms = [id \in RoomIds |-> IF id = 1 THEN 1 ELSE 0]
    /\ ws_to_room = [ws \in Conns |-> IF ws \in {1, 2} THEN 1 ELSE 0]
    /\ room = <<[Room(1) EXCEPT
                   !.players = <<Player(1, Token(1, 1), "black"),
                                 Player(2, Token(1, 2), "white")>>,
                   !.game_started = TRUE, !.turn_timer_task = 1]>>
    /\ game = <<g>>
    /\ timers = <<<<timer_loop(g.current_turn)>>>>
    /\ guards = <<<<>>>>
    /\ hist = <<NoHistory>>

\* Either nothing has happened yet and two people connect (connections 1 and
\* 2), or a game is in play and every connection of the model can still be
\* opened (the further ones by the same two people, see User).
Init ==
    /\ \/ /\ Fresh
          /\ conn = [ws \in Conns |->
                       IF ws <= 2 THEN IdleTask ELSE [IdleTask EXCEPT !.open = FALSE]]
       \/ /\ InPlay(FourEach) \/ InPlay(LastCell)
          /\ conn = [ws \in Conns |-> IdleTask]
    /\ out = <<>>
    /\ nreconnects = 0

Next ==
    \/ \E ws \in Conns, room_id \in RoomIds : create_room(ws, room_id)
    \/ \E ws \in Conns, room_id \in RoomIds : join_room(ws, room_id)
    \/ \E ws \in Conns : join_room_resume(ws)
    \/ \E ws \in Conns : join_room_raise(ws)
    \/ \E ws \in Conns, cell \in Cells : place_stone(ws, cell[1], cell[2])
    \/ \E ws \in Conns : place_stone_resume(ws)
    \/ \E ws \in Conns, room_id \in RoomIds, token \in TokenInputs :
          reconnect(ws, room_id, token)
    \/ \E ws \in Conns : reconnect_resume(ws)
    \/ \E ws \in Conns : handle_disconnect(ws, TRUE)
    \/ \E ws \in Conns : handle_disconnect_resume(ws)
    \/ \E o \in 1..Len(room) : \E t \in 1..Len(timers[o]) : timer_loop_wake(o, t)
    \/ \E o \in 1..Len(room) : \E t \in 1..Len(timers[o]) : timer_loop_resume(o, t)
    \/ \E o \in 1..Len(room) : \E k \in 1..Len(guards[o]) : cleanup_after_timeout_wake(o, k)
    \/ \E o \in 1..Len(room) : \E k \in 1..Len(guards[o]) : cleanup_after_timeout_resume(o, k)

Spec == Init /\ [][Next]_vars

\* What the event loop does by itself: a sleep ends and its task runs on (a
\* Turn Clock, a Disconnect Guard), a send that was started returns or fails
\* and the coroutine awaiting it runs on.  What the clients do (sending a
\* request, dropping a connection) may never happen.
Scheduled ==
    \/ \E ws \in Conns : join_room_resume(ws)
    \/ \E ws \in Conns : place_stone_resume(ws)
    \/ \E ws \in Conns : reconnect_resume(ws)
    \/ \E ws \in Conns : handle_disconnect_resume(ws)
    \/ \E o \in 1..Len(room) : \E t \in 1..Len(timers[o]) : timer_loop_wake(o, t)
    \/ \E o \in 1..Len(room) : \E t \in 1..Len(timers[o]) : timer_loop_resume(o, t)
    \/ \E o \in 1..Len(room) : \E k \in 1..Len(guards[o]) : cleanup_after_timeout_wake(o, k)
    \/ \E o \in 1..Len(room) : \E k \in 1..Len(guards[o]) : cleanup_after_timeout_resume(o, k)

\* The same steps, with every task that is ready to run eventually run.
SpecFair == Init /\ [][Next]_vars /\ WF_vars(Scheduled)

\* ========================================================== ws_handler.py
\* What a client can send on a connection: the five kinds of models.py, with
\* their fields, a join_room without its room_id and a kind that does not
\* exist.
ClientData ==
    {[type |-> "create_room"], [type |-> "leave_room"], [type |-> "join_room"],
     [type |-> "resign"]}
    \cup {[type |-> "join_room", room_id |-> id] : id \in RoomIds}
    \cup {[type |-> "place_stone", row |-> c[1], col |-> c[2]] : c \in Cells}
    \cup {[type |-> "reconnect", room_id |-> id, player_token |-> t] :
             id \in RoomIds, t \in TokenInputs}

\* The fields model_validate requires of each kind.
Required(type) ==
    IF type = "join_room" THEN {"type", "room_id"}
    ELSE IF type = "place_stone" THEN {"type", "row", "col"}
    ELSE IF type = "reconnect" THEN {"type", "room_id", "player_token"}
    ELSE {"type"}

\* The typed message, or no message (a record of kind None) for an unknown
\* kind or a failed validation.
NoMessage == [type |-> None]

parse_client_message(data) ==
    IF data.type \notin {"create_room", "join_room", "place_stone", "leave_room",
                         "reconnect"}
    THEN NoMessage
    ELSE IF ~(Required(data.type) \subseteq DOMAIN data) THEN NoMessage
    ELSE data

\* One turn of the loop of websocket_endpoint: a message is received, parsed
\* and routed (lines 22-40).
websocket_endpoint(ws, data) ==
    /\ Idle(ws)
    /\ LET msg == parse_client_message(data) IN
       IF msg = NoMessage THEN reply_error(ws, "Unknown or invalid message")
       ELSE IF msg.type = "create_room"
       THEN \E room_id \in RoomIds : create_room(ws, room_id)
       ELSE IF msg.type = "join_room" THEN join_room(ws, msg.room_id)
       ELSE IF msg.type = "leave_room" THEN handle_disconnect(ws, FALSE)
       ELSE reply_error(ws, "Handler for '" \o msg.type \o "' not yet implemented")

\* The server as its clients reach it: nothing has happened yet, every
\* connection of the model can be opened.
InitEndpoint ==
    /\ Fresh
    /\ conn = [ws \in Conns |-> IdleTask]
    /\ out = <<>>
    /\ nreconnects = 0

NextEndpoint ==
    \/ \E ws \in Conns, data \in ClientData : websocket_endpoint(ws, data)
    \/ \E ws \in Conns : handle_disconnect(ws, TRUE)
    \/ \E ws \in Conns : join_room_resume(ws)
    \/ \E ws \in Conns : join_room_raise(ws)
    \/ \E ws \in Conns : handle_disconnect_resume(ws)
    \/ \E o \in 1..Len(room) : \E t \in 1..Len(timers[o]) : timer_loop_wake(o, t)
    \/ \E o \in 1..Len(room) : \E t \in 1..Len(timers[o]) : timer_loop_resume(o, t)
    \/ \E o \in 1..Len(room) : \E k \in 1..Len(guards[o]) : cleanup_after_timeout_wake(o, k)
    \/ \E o \in 1..Len(room) : \E k \in 1..Len(guards[o]) : cleanup_after_timeout_resume(o, k)

SpecEndpoint == InitEndpoint /\ [][NextEndpoint]_vars

\* ================================================= the Board Engine alone
\* Positions for game.py on its own, as test_game.py drives a GameState.  Each
\* is a board that alternate validated moves reach (no five in a row on it,
\* as many white stones as black ones when black is on turn, one fewer when
\* white is): around an empty anchor cell, any stones on the four cells before
\* and the four cells after it along one direction, and, off that line, the
\* stones that even the count (black ones in the last row but one, white ones
\* in the last row, never five side by side).
Anchors == {<<7, 4>>, <<0, 14>>}
Offsets == {-4, -3, -2, -1, 1, 2, 3, 4}
FillCols == <<0, 1, 2, 3, 5, 6, 7, 8, 10>>

OnLine(a, d, k) == <<a[1] + DIRECTIONS[d][1] * k, a[2] + DIRECTIONS[d][2] * k>>

OnBoard(cell) == cell[1] \in Coords /\ cell[2] \in Coords

\* The stones along the line: none where the line leaves the board.
Patterns(a, d) ==
    {p \in [Offsets -> {None, "black", "white"}] :
        \A k \in Offsets : ~OnBoard(OnLine(a, d, k)) => p[k] = None}

\* The board with the stones <<row, col, color>> of a set put on it.
RECURSIVE WithStones(_, _)
WithStones(board, stones) ==
    IF stones = {} THEN board
    ELSE LET s == CHOOSE s \in stones : TRUE
         IN  WithStones([board EXCEPT ![s[1]][s[2]] = s[3]], stones \ {s})

Position(a, d, p, color) ==
    LET nb == Cardinality({k \in Offsets : p[k] = "black"})
        nw == Cardinality({k \in Offsets : p[k] = "white"})
        want == IF color = "black" THEN nw ELSE nw + 1
        fillb == IF want > nb THEN want - nb ELSE 0
        fillw == IF nb > want THEN nb - want ELSE 0
        line == {<<OnLine(a, d, k)[1], OnLine(a, d, k)[2], p[k]>> :
                    k \in {k \in Offsets : p[k] # None}}
        evenb == {<<BOARD_SIZE - 2, FillCols[j], "black">> : j \in 1..fillb}
        evenw == {<<BOARD_SIZE - 1, FillCols[j], "white">> : j \in 1..fillw}
    IN  [GameState EXCEPT
            !.board = WithStones(EmptyBoard, line \cup evenb \cup evenw),
            !.current_turn = color,
            !.move_count = nb + nw + fillb + fillw]

\* LastCell with black on (7,0)..(7,3): the last stone, black on (7, 4), makes
\* five in a row.  Still 112 stones of each color and no five in a row.
LastCellWin ==
    [LastCell EXCEPT
        !.board[7][1] = "black", !.board[7][2] = "black",
        !.board[0][1] = "white", !.board[0][5] = "white"]

\* The cells played: the anchors ((7, 4) is the cell the full boards leave
\* empty).
EngineCells == Anchors

\* One GameState, no room, no connection in use.
InitGame ==
    /\ \/ \E a \in Anchors, d \in 1..Len(DIRECTIONS), color \in Colors :
             \E p \in Patterns(a, d) : game = <<Position(a, d, p, color)>>
       \/ game = <<LastCell>>
       \/ game = <<LastCellWin>>
    /\ rooms = [id \in RoomIds |-> 0]
    /\ ws_to_room = [ws \in Conns |-> 0]
    /\ room = <<>> /\ timers = <<>> /\ guards = <<>> /\ hist = <<>>
    /\ conn = [ws \in Conns |-> IdleTask]
    /\ out = <<>>
    /\ nreconnects = 0

\* A validated placement by the player on turn: validate_move returned None,
\* then place_stone ran (as room.py:166-171 and the tests call them).
validated_place_stone(row, col) ==
    LET g == game[1]
        color == g.current_turn
    IN  /\ validate_move(g, row, col, color) = ""
        /\ game' = <<game_place_stone(g, row, col, color)>>
        /\ UNCHANGED <<rooms, ws_to_room, room, timers, guards, conn, hist, out,
                       nreconnects>>

NextGame == \E cell \in EngineCells : validated_place_stone(cell[1], cell[2])

SpecGame == InitGame /\ [][NextGame]_vars

\* ================================================================ properties
Objs == 1..Len(room)

\* The Turn Clock tasks of a Room object that have neither finished nor been
\* cancelled.
LiveClocks(o) == {t \in 1..Len(timers[o]) : ~done(timers[o][t])}

\* What every request but its reply leaves alone when it is rejected.
core == <<rooms, ws_to_room, room, game, timers, guards, conn, hist>>

\* C1: for every room, is_game_over has been written True at most once, the
\* game is over exactly if it has been, the winner is the one written with it,
\* and at most one game_over has been broadcast, with that outcome.
C1_AtMostOnceTerminal ==
    \A o \in Objs :
        /\ Len(hist[o].terminals) <= 1
        /\ Len(hist[o].announced) <= 1
        /\ game[o].is_game_over <=> hist[o].terminals # <<>>
        /\ hist[o].terminals # <<>> => game[o].winner = hist[o].terminals[1].winner
        /\ hist[o].announced # <<>> => hist[o].announced = hist[o].terminals

\* A winning move was declared and a Disconnect Guard that expired afterwards
\* found the game over.
C1_Witness ==
    \E o \in Objs : \E k \in 1..Len(guards[o]) :
        /\ hist[o].terminals = <<Terminal("five_in_row", "black")>>
        /\ guards[o][k].cleaned /\ ~guards[o][k].declared

\* C2: a Turn Clock that declared a timeout saw no move accepted while it was
\* live, and the outcome it wrote is the loss of the color it was started for.
C2_TimeoutLoss ==
    \A o \in Objs : \A t \in 1..Len(timers[o]) :
        timers[o][t].declared =>
            /\ ~timers[o][t].move_seen
            /\ hist[o].terminals =
                   <<Terminal("timeout", Other(timers[o][t].started_for))>>

\* C3 (as stated): when the grace period of the player on turn has run out
\* with the opponent connected throughout and no reconnect, the game is over
\* by "disconnect" with the opponent as winner and the room is out of the
\* directory.
C3_DisconnectLoss ==
    \A o \in Objs : \A k \in 1..Len(guards[o]) :
        LET gd == guards[o][k] IN
        (gd.noted.on_turn /\ gd.noted.quiet /\ gd.st = "done") =>
            /\ hist[o].terminals =
                   <<Terminal("disconnect", room[o].players[gd.opponent].color)>>
            /\ rooms[gd.room_id] # o

\* C3 (amended): when the grace period of the player on turn has run out with
\* the opponent connected throughout and no reconnect, the game is over with
\* the opponent as winner, by "disconnect" or (the Turn Clock of the turn ran
\* out first) by "timeout", by "disconnect" if this guard declared it, and
\* once the guard has finished the room is out of the directory.
C3_DisconnectOrTimeoutLoss ==
    \A o \in Objs : \A k \in 1..Len(guards[o]) :
        LET gd == guards[o][k] IN
        (gd.noted.on_turn /\ gd.noted.quiet /\ gd.st \in {"261", "done"}) =>
            /\ \E reason \in {"disconnect", "timeout"} :
                  /\ hist[o].terminals =
                         <<Terminal(reason, room[o].players[gd.opponent].color)>>
                  /\ gd.declared => reason = "disconnect"
            /\ game[o].is_game_over
            /\ game[o].winner = room[o].players[gd.opponent].color
            /\ gd.st = "done" => gd.cleaned /\ rooms[gd.room_id] # o

\* The guard of the player on turn expired undisturbed, declared the loss and
\* finished.
C3_Witness ==
    \E o \in Objs : \E k \in 1..Len(guards[o]) :
        /\ guards[o][k].noted.on_turn /\ guards[o][k].noted.quiet
        /\ guards[o][k].st = "done" /\ guards[o][k].declared

\* C4: a Disconnect Guard whose player reconnected before it expired never
\* declares a disconnect-loss and never tears the room down.
C4_ReconnectCancelsGuard ==
    \A o \in Objs : \A k \in 1..Len(guards[o]) :
        guards[o][k].noted.answered =>
            ~guards[o][k].declared /\ ~guards[o][k].cleaned

\* C5: whenever the game is over by a winning move, a draw or a
\* disconnect-loss, the room has no live Turn Clock task.
C5_ClockCancelled ==
    \A o \in Objs :
        (/\ hist[o].terminals # <<>>
         /\ hist[o].terminals[1].reason \in {"five_in_row", "draw", "disconnect"})
        => LiveClocks(o) = {}

\* C6: every room has at most one live Turn Clock task, and it is the one
\* turn_timer_task refers to.
C6_OneLiveClock ==
    \A o \in Objs :
        /\ Cardinality(LiveClocks(o)) <= 1
        /\ \A t \in LiveClocks(o) : t = room[o].turn_timer_task

\* A clock was started over a live one: the earlier is cancelled, the later
\* runs.
C6_Witness ==
    \E o \in Objs :
        /\ Len(timers[o]) >= 2
        /\ timers[o][1].st = "cancelled"
        /\ LiveClocks(o) = {Len(timers[o])}

\* The cases in which a place_stone request fails: the connection is not
\* bound to a room, the game is not started or over, it is not the sender's
\* turn, the coordinates are off the board, or the cell is occupied.
MoveFails(ws, row, col) ==
    LET o == get_room_for_ws(ws) IN
    \/ o = 0
    \/ ~room[o].game_started
    \/ game[o].is_game_over
    \/ \E s \in 1..Len(room[o].players) :
          room[o].players[s].ws = ws /\ room[o].players[s].color # game[o].current_turn
    \/ row \notin Coords \/ col \notin Coords
    \/ row \in Coords /\ col \in Coords /\ game[o].board[row][col] # None

\* C7: a place_stone request that fails changes neither the game nor the
\* room's Turn Clock and is answered by exactly one error message, sent to
\* the sender.
C7_RejectedMove ==
    [][\A ws \in Conns, cell \in Cells :
          (place_stone(ws, cell[1], cell[2]) /\ MoveFails(ws, cell[1], cell[2])) =>
              /\ UNCHANGED <<game, timers, room>>
              /\ Len(out') = 1
              /\ out'[1].to = ws
              /\ out'[1].msg.type = "error"]_vars

\* C8: a reconnect with the id of a room of the directory and the token of
\* one of its players leaves that player connected through the new
\* connection, with its token and color, binds the connection to the room and
\* sends it a state_sync with the game's board, turn and move count and the
\* player's color; any other reconnect is answered "Room not found" or
\* "Invalid player token" and changes nothing.
C8_ReconnectRestores ==
    [][\A ws \in Conns, room_id \in RoomIds, token \in TokenInputs :
          reconnect(ws, room_id, token) =>
              LET o == rooms[room_id]
                  holders == IF o = 0 THEN {}
                             ELSE {s \in 1..Len(room[o].players) :
                                      room[o].players[s].token = token}
              IN  IF o = 0
                  THEN out' = <<Send(ws, ErrorMsg("Room not found"))>> /\ UNCHANGED core
                  ELSE IF holders = {}
                  THEN out' = <<Send(ws, ErrorMsg("Invalid player token"))>>
                       /\ UNCHANGED core
                  ELSE /\ ws_to_room'[ws] = room_id
                       /\ rooms'[room_id] = o
                       /\ UNCHANGED game
                       /\ \A s \in holders :
                             /\ room'[o].players[s].connected
                             /\ room'[o].players[s].ws = ws
                             /\ room'[o].players[s].token = token
                             /\ room'[o].players[s].color = room[o].players[s].color
                             /\ out' = <<Send(ws, StateSyncMsg(game[o].board,
                                              game[o].current_turn, game[o].move_count,
                                              room[o].players[s].color))>>]_vars

\* A new connection has taken over the seat of a player that had dropped,
\* after a move, and has been sent the state_sync.
C8_Witness ==
    \E o \in Objs : \E s \in 1..Len(room[o].players) :
        /\ conn[3].pc = "reconnect:219"
        /\ room[o].players[s].ws = 3 /\ room[o].players[s].connected
        /\ ~conn[s].open
        /\ game[o].move_count = 9
        /\ out = <<Send(3, StateSyncMsg(game[o].board, game[o].current_turn, 9,
                                        room[o].players[s].color))>>

\* C9: create_room registers a room with one player, black, first in the
\* list; join_room adds one player, white, second in the list, and when it
\* returns the game is started and one live Turn Clock runs, with the full
\* budget, for black's first move; no room ever has more than two players.
C9_CreateAndJoin ==
    /\ [](\A o \in Objs : Len(room[o].players) <= 2)
    /\ [][/\ \A ws \in Conns, room_id \in RoomIds :
               create_room(ws, room_id) =>
                   LET o == rooms'[room_id] IN
                   /\ o \in 1..Len(room') /\ o \notin Objs
                   /\ Len(room'[o].players) = 1
                   /\ room'[o].players[1].ws = ws
                   /\ room'[o].players[1].color = "black"
          /\ \A ws \in Conns, room_id \in RoomIds :
               (join_room(ws, room_id) /\ join_room_error(room_id) = "") =>
                   LET o == rooms[room_id] IN
                   /\ Len(room'[o].players) = Len(room[o].players) + 1
                   /\ Len(room'[o].players) = 2
                   /\ room'[o].players[1] = room[o].players[1]
                   /\ room'[o].players[2].ws = ws
                   /\ room'[o].players[2].color = "white"
          /\ \A ws \in Conns :
               (join_room_resume(ws) /\ conn'[ws].pc = "idle") =>
                   LET o == conn[ws].o
                       live == {t \in 1..Len(timers'[o]) : ~done(timers'[o][t])}
                   IN  /\ room'[o].game_started
                       /\ live = {room'[o].turn_timer_task}
                       /\ \A t \in live : timers'[o][t] = timer_loop("black")
                       /\ game'[o].move_count = 0 /\ game'[o].current_turn = "black"
       ]_vars

\* The cases in which a join_room request is rejected: no room of that id, two
\* players already, or the game over.
JoinRejected(room_id) ==
    \/ rooms[room_id] = 0
    \/ rooms[room_id] # 0 /\ Len(room[rooms[room_id]].players) >= 2
    \/ rooms[room_id] # 0 /\ game[rooms[room_id]].is_game_over

\* C10: a rejected join_room changes nothing of the rooms, the games, the
\* tasks and the two mappings, and is answered by one error message, sent to
\* the requester.
C10_RejectedJoin ==
    [][\A ws \in Conns, room_id \in RoomIds :
          (join_room(ws, room_id) /\ JoinRejected(room_id)) =>
              /\ UNCHANGED core
              /\ Len(out') = 1
              /\ out'[1].to = ws
              /\ out'[1].msg.type = "error"]_vars

\* A third connection asked to join a room in play and was told it is full.
C10_Witness ==
    /\ out = <<Send(3, ErrorMsg("Room is full"))>>
    /\ \E o \in Objs : Len(room[o].players) = 2 /\ rooms[room[o].room_id] = o
    /\ ws_to_room[3] = 0

\* C11: a Room object that has been torn down (it is no longer the one the
\* directory holds under its id) has its id absent from rooms, no connection
\* mapped to its id, and no live Turn Clock or Disconnect Guard task.
C11_TeardownComplete ==
    \A o \in Objs :
        rooms[room[o].room_id] # o =>
            /\ rooms[room[o].room_id] = 0
            /\ \A ws \in Conns : ws_to_room[ws] # room[o].room_id
            /\ LiveClocks(o) = {}
            /\ \A k \in 1..Len(guards[o]) : done(guards[o][k])

\* C12: handle_disconnect of a player's connection unbinds the connection and
\* marks the player disconnected; with another player connected, that player
\* is sent opponent_disconnected, the directory and the game are unchanged
\* and, when the send has returned, a Disconnect Guard of the player is
\* started and registered; with none connected, no guard is started and the
\* room is out of the directory in the same step.
C12_DisconnectBranch ==
    [][/\ \A ws \in Conns :
            (/\ handle_disconnect(ws, TRUE)
             /\ get_room_for_ws(ws) # 0
             /\ \E s \in 1..Len(room[get_room_for_ws(ws)].players) :
                   room[get_room_for_ws(ws)].players[s].ws = ws) =>
                LET room_id == ws_to_room[ws]
                    o == rooms[room_id]
                    P == room[o].players
                    seat == CHOOSE s \in 1..Len(P) :
                               P[s].ws = ws /\ \A s2 \in 1..(s - 1) : P[s2].ws # ws
                    others == {s \in 1..Len(P) : s # seat /\ P[s].connected}
                IN  /\ ws_to_room'[ws] = 0
                    /\ ~room'[o].players[seat].connected
                    /\ UNCHANGED game
                    /\ IF others # {}
                       THEN /\ \E s \in others :
                                 out' = <<Send(P[s].ws, OpponentDisconnectedMsg)>>
                            /\ UNCHANGED rooms
                            /\ Len(guards'[o]) = Len(guards[o])
                            /\ conn'[ws].pc = "handle_disconnect:252"
                            /\ conn'[ws].i = seat
                       ELSE /\ out' = <<>>
                            /\ Len(guards'[o]) = Len(guards[o])
                            /\ conn'[ws].pc = "idle"
                            /\ rooms'[room_id] = 0
       /\ \A ws \in Conns :
            handle_disconnect_resume(ws) =>
                LET o == conn[ws].o
                    k == Len(guards[o]) + 1
                IN  /\ Len(guards'[o]) = k
                    /\ ~done(guards'[o][k])
                    /\ guards'[o][k].player = conn[ws].i
                    /\ room'[o].disconnect_tasks[conn[ws].i] = k
                    /\ UNCHANGED <<rooms, game>>
      ]_vars

\* A player's connection has dropped with the other player connected: the
\* player's guard sleeps, registered, and the room is in the directory.
C12_Witness ==
    \E o \in Objs : \E k \in 1..Len(guards[o]) :
        /\ guards[o][k].st = "256"
        /\ room[o].disconnect_tasks[guards[o][k].player] = k
        /\ ~room[o].players[guards[o][k].player].connected
        /\ room[o].players[guards[o][k].opponent].connected
        /\ rooms[room[o].room_id] = o
        /\ out = <<>>

\* C13: an accepted move starts the stone_placed broadcast with next_turn
\* the other color, or none if the move ended the game; the game_over that
\* follows the stone_placed broadcast of a game-ending move carries
\* "five_in_row" and the mover as winner, or "draw" and no winner; a player
\* that has been sent that game_over is sent no turn_timer afterwards, and
\* no second game_over is broadcast.
C13_MoveEvents ==
    /\ [](\A w \in Conns :
            conn[w].pc = "place_stone:187" =>
                LET o == conn[w].o IN
                /\ game[o].is_game_over
                /\ conn[w].msg = GameOverMsg(game[o].winner,
                                             IF game[o].winner # None
                                             THEN "five_in_row" ELSE "draw")
                /\ Len(hist[o].announced) <= 1
                /\ \A k \in 1..Len(out) :
                      out[k].msg.type = "turn_timer" =>
                          ~ \E s \in 1..conn[w].i : room[o].players[s].ws = out[k].to)
    /\ [][\A ws \in Conns, cell \in Cells :
             (place_stone(ws, cell[1], cell[2]) /\ game' # game) =>
                 LET o == get_room_for_ws(ws)
                     P == room[o].players
                     mover == CHOOSE s \in 1..Len(P) : P[s].ws = ws
                     first == CHOOSE s \in 1..Len(P) :
                                 P[s].connected /\ \A s2 \in 1..(s - 1) : ~P[s2].connected
                 IN  /\ out' = <<Send(P[first].ws,
                                      StonePlacedMsg(cell[1], cell[2], P[mover].color,
                                          IF game'[o].is_game_over THEN None
                                          ELSE Other(P[mover].color)))>>
                     /\ game'[o].is_game_over =>
                            game'[o].winner \in {None, P[mover].color}
          ]_vars

\* C14: every well-formed client message received by the endpoint is routed to
\* its Room Directory operation: a place_stone from the participant on turn, in
\* a started game that is not over, on an empty cell of the board, starts the
\* stone_placed broadcast, and a reconnect with the token of a player of the
\* room starts the state_sync reply; create_room, join_room and leave_room are
\* the steps of those operations; an unknown or schema-invalid message is
\* answered by exactly one error on its connection, changes nothing of the
\* rooms and the directory, and leaves the connection open.
C14_Dispatch ==
    [][\A ws \in Conns, data \in ClientData :
          websocket_endpoint(ws, data) =>
             LET msg == parse_client_message(data)
                 o == get_room_for_ws(ws)
                 seat == IF o = 0 THEN 0 ELSE get_player_by_ws(room[o], ws)
             IN
             /\ msg = NoMessage =>
                   /\ out' = <<Send(ws, ErrorMsg("Unknown or invalid message"))>>
                   /\ UNCHANGED core
                   /\ conn'[ws].open
             /\ msg.type = "create_room" => \E id \in RoomIds : create_room(ws, id)
             /\ msg.type = "join_room" => join_room(ws, msg.room_id)
             /\ msg.type = "leave_room" => handle_disconnect(ws, FALSE)
             /\ ( /\ msg.type = "place_stone"
                  /\ seat # 0
                  /\ room[o].game_started
                  /\ ~game[o].is_game_over
                  /\ room[o].players[seat].color = game[o].current_turn
                  /\ msg.row \in Coords /\ msg.col \in Coords
                  /\ game[o].board[msg.row][msg.col] = None )
                => /\ out' # <<>>
                   /\ out'[1].msg.type = "stone_placed"
             /\ ( /\ msg.type = "reconnect"
                  /\ rooms[msg.room_id] # 0
                  /\ get_player_by_token(room[rooms[msg.room_id]], msg.player_token) # 0 )
                => /\ out' # <<>>
                   /\ out'[1].msg.type = "state_sync"
      ]_vars

\* The reference of C15, a scan of the whole lines through (row, col): some
\* five consecutive cells of the horizontal, the vertical or a diagonal, the
\* cell (row, col) among them, all hold a stone of `color`.
RefWin(board, row, col, color) ==
    \E d \in {<<0, 1>>, <<1, 0>>, <<1, 1>>, <<1, -1>>} :
       \E first \in -4..0 :
          \A j \in first..(first + 4) :
             /\ row + d[1] * j \in Coords
             /\ col + d[2] * j \in Coords
             /\ board[row + d[1] * j][col + d[2] * j] = color

\* C15: a validated placement at (row, col) by color C returns true with
\* winner = C exactly when, on the board after it, the stone lies in a run of
\* at least five C stones along the horizontal, the vertical or a diagonal
\* through (row, col) (full-line scan); with a longest run of four or fewer
\* the game is not won.
C15_WinDetection ==
    [][\A cell \in EngineCells :
          validated_place_stone(cell[1], cell[2]) =>
             LET C == game[1].current_turn
                 won == RefWin(game'[1].board, cell[1], cell[2], C)
             IN  /\ (place_stone_returns(game[1], cell[1], cell[2], C)
                        /\ game'[1].winner = C) <=> won
                 /\ (game'[1].is_game_over /\ game'[1].winner # None) <=> won
                 /\ ~won => game'[1].winner = None
      ]_vars

\* White has won in the corner: five on the diagonal from (0, 14) to (4, 10),
\* which the board's edge cuts on one side.
C15_Witness ==
    /\ Len(game) = 1 /\ room = <<>>
    /\ game[1].is_game_over /\ game[1].winner = "white"
    /\ \A j \in 0..4 : game[1].board[j][BOARD_SIZE - 1 - j] = "white"
    /\ game[1].board[7][4] = None

\* C16: a validated placement that brings move_count to N*N without making
\* five in a row ends the game with winner = none; if that last placement
\* makes five in a row the mover has won; and no game is over without a
\* winner while move_count < N*N.
C16_Draw ==
    /\ [](\A o \in 1..Len(game) :
             game[o].is_game_over /\ game[o].winner = None
                => game[o].move_count = BOARD_SIZE * BOARD_SIZE)
    /\ [][\A cell \in EngineCells :
             (validated_place_stone(cell[1], cell[2])
                 /\ game'[1].move_count = BOARD_SIZE * BOARD_SIZE) =>
                LET C == game[1].current_turn IN
                /\ game'[1].is_game_over
                /\ place_stone_returns(game[1], cell[1], cell[2], C)
                /\ game'[1].winner =
                      IF RefWin(game'[1].board, cell[1], cell[2], C) THEN C ELSE None
         ]_vars

\* The board is full, nobody has five in a row, the game is over without a
\* winner.
C16_Witness ==
    /\ Len(game) = 1 /\ room = <<>>
    /\ game[1].move_count = BOARD_SIZE * BOARD_SIZE
    /\ \A r \in Coords, c \in Coords : game[1].board[r][c] # None
    /\ ~RefWin(game[1].board, 7, 4, "black")
    /\ game[1].is_game_over /\ game[1].winner = None

\* The number of stones on a board.
Occupied(board) ==
    Cardinality({cell \in Coords \X Coords : board[cell[1]][cell[2]] # None})

\* C17: through the Room Directory, move_count always equals the number of
\* occupied cells, and while the game is not over current_turn is black
\* exactly when move_count is even; every accepted move increases move_count
\* by exactly 1 and, when it does not end the game, hands the turn to the
\* other color; no other step changes move_count, the board or current_turn.
C17_CountAndTurn ==
    /\ [](\A o \in Objs :
             /\ game[o].move_count = Occupied(game[o].board)
             /\ ~game[o].is_game_over =>
                   (game[o].current_turn = "black" <=> game[o].move_count % 2 = 0))
    /\ [][\A o \in Objs :
             LET g == game[o]
                 h == game'[o]
                 accepted ==
                    \E ws \in Conns, cell \in Cells :
                       /\ place_stone(ws, cell[1], cell[2])
                       /\ get_room_for_ws(ws) = o
                       /\ validate_move(g, cell[1], cell[2], g.current_turn) = ""
                       /\ h.board = [g.board EXCEPT ![cell[1]][cell[2]] = g.current_turn]
             IN  IF accepted
                 THEN /\ h.move_count = g.move_count + 1
                      /\ ~h.is_game_over => h.current_turn = Other(g.current_turn)
                 ELSE /\ h.move_count = g.move_count
                      /\ h.board = g.board
                      /\ h.current_turn = g.current_turn
         ]_vars

\* Black has played (8, 4) on the position of four stones each: nine stones,
\* white on turn, the game goes on.
C17_Witness ==
    \E o \in Objs :
       /\ game[o].move_count = FourEach.move_count + 1
       /\ game[o].board[8][4] = "black"
       /\ game[o].current_turn = "white"
       /\ ~game[o].is_game_over

\* C18: once is_game_over is true for a room's game, no step of any operation
\* (place_stone, reconnect, disconnect, Turn Clock, Disconnect Guard) changes
\* board, current_turn, move_count or winner, and is_game_over stays true.
C18_FinishedGameFrozen ==
    [][\A o \in Objs : game[o].is_game_over => game'[o] = game[o]]_vars

\* The game is over and a player who then sent a move has been refused.
C18_Witness ==
    \E o \in Objs, ws \in Conns :
       /\ game[o].is_game_over
       /\ get_room_for_ws(ws) = o
       /\ out = <<Send(ws, ErrorMsg("Game is already over"))>>

\* C19: a Turn Clock that was live when a move was accepted, none of the
\* accepted moves having ended the game, takes no further step that sends
\* anything (no turn_timer, no game_over) or that declares a timeout.
C19_SupersededClockSilent ==
    [][\A o \in Objs : \A t \in 1..Len(timers[o]) :
          ( /\ ~done(timers[o][t])
            /\ timers[o][t].move_seen
            /\ \A n \in 1..Len(hist[o].terminals) :
                  hist[o].terminals[n].reason \notin {"five_in_row", "draw"}
            /\ timer_loop_wake(o, t) \/ timer_loop_resume(o, t) )
          => /\ out' = <<>>
             /\ ~timers'[o][t].declared
      ]_vars

\* An operation is in the middle of executing on Room object o: a request or
\* a disconnect handling is suspended in it, a Disconnect Guard is in its
\* game_over broadcast, or a Turn Clock is in the game_over broadcast of the
\* timeout it declared.
Executing(o) ==
    \/ \E ws \in Conns : conn[ws].pc # "idle" /\ conn[ws].o = o
    \/ \E k \in 1..Len(guards[o]) : guards[o][k].st = "261"
    \/ \E t \in 1..Len(timers[o]) : timers[o][t].st = "303"

\* C20: a room that is in the directory, with no operation in the middle of
\* executing on it, has a live Turn Clock exactly when its game is started and
\* not over.
C20_ClockMatchesGame ==
    \A o \in Objs :
        (rooms[room[o].room_id] = o /\ ~Executing(o)) =>
            (LiveClocks(o) # {} <=> (room[o].game_started /\ ~game[o].is_game_over))

\* The live Disconnect Guard tasks of the participant in seat `seat`.
LiveGuards(o, seat) ==
    {k \in 1..Len(guards[o]) : ~done(guards[o][k]) /\ guards[o][k].player = seat}

\* C21: each participant has at most one live Disconnect Guard, it is the one
\* disconnect_tasks records for the participant, and the participant is marked
\* disconnected while it lives.
C21_GuardBookkeeping ==
    \A o \in Objs : \A seat \in 1..Len(room[o].players) :
        /\ Cardinality(LiveGuards(o, seat)) <= 1
        /\ \A k \in LiveGuards(o, seat) :
              /\ room[o].disconnect_tasks[seat] = k
              /\ ~room[o].players[seat].connected

\* join_room is in the middle of executing on Room object o.
Joining(o) ==
    \E ws \in Conns :
       /\ conn[ws].pc \in {"join_room:135", "join_room:141", "join_room:146"}
       /\ conn[ws].o = o

\* C22: whether or not its sends are delivered, join_room completes its state
\* changes: once join_room is no longer executing on it, a room of the
\* directory with two participants has game_started true and has had its Turn
\* Clock started.
C22_JoinCompletes ==
    \A o \in Objs :
        (rooms[room[o].room_id] = o /\ Len(room[o].players) = 2 /\ ~Joining(o)) =>
            /\ room[o].game_started
            /\ room[o].turn_timer_task # 0

\* C23: whenever a Disconnect Guard has reached the end of its grace period
\* with its participant still disconnected (it has written the disconnect
\* loss and is in its game_over broadcast; a guard that has nothing to
\* declare tears down in the same step), the room is eventually out of the
\* directory.
C23_ExpiryTearsDown ==
    \A o \in 1..MaxRooms : \A k \in 1..NumConns :
        (o <= Len(room) /\ k <= Len(guards[o]) /\ guards[o][k].st = "261")
            ~> (o <= Len(room) /\ rooms[room[o].room_id] # o)

\* C24: a Disconnect Guard declares the disconnect loss only against a
\* participant that is marked disconnected and has been so without a break
\* since the guard was started, a whole grace period before (the participant
\* was disconnected when the task was created and no reconnect of it
\* succeeded since), and the winner it writes is the opponent the guard was
\* started with.
C24_FullGracePeriod ==
    [][\A o \in Objs : \A k \in 1..Len(guards[o]) :
          (~guards[o][k].declared /\ guards'[o][k].declared) =>
             /\ ~room[o].players[guards[o][k].player].connected
             /\ ~guards[o][k].noted.rejoined
             /\ game'[o].is_game_over
             /\ game'[o].winner = room[o].players[guards[o][k].opponent].color
             /\ hist'[o].terminals[Len(hist'[o].terminals)] =
                   Terminal("disconnect", room[o].players[guards[o][k].opponent].color)
      ]_vars

\* The seats <<o, seat>> of the rooms of the directory whose participant is
\* marked connected with connection ws as its handle.
SeatsOf(ws) ==
    {s \in {<<o, seat>> : o \in Objs, seat \in 1..2} :
        /\ rooms[room[s[1]].room_id] = s[1]
        /\ s[2] <= Len(room[s[1]].players)
        /\ room[s[1]].players[s[2]].connected
        /\ room[s[1]].players[s[2]].ws = ws}

\* C25: a connection is the handle of at most one connected participant over
\* all rooms of the directory, and the connection of every connected
\* participant of a room of the directory is mapped to that room.
C25_OneConnectionOneSeat ==
    \A ws \in Conns :
        /\ Cardinality(SeatsOf(ws)) <= 1
        /\ \A s \in SeatsOf(ws) : ws_to_room[ws] = room[s[1]].room_id

\* The state reconnect leaves a participant's old connection in: still mapped
\* to the room, which is in the directory, and the handle of none of its
\* participants.
Replaced(ws) ==
    /\ get_room_for_ws(ws) # 0
    /\ \A s \in 1..Len(room[get_room_for_ws(ws)].players) :
          room[get_room_for_ws(ws)].players[s].ws # ws

\* C26: nothing arriving on a replaced connection acts for the participant
\* it was the handle of: a place_stone from it places no stone and changes
\* nothing of the game, the room, its clocks and its guards; its disconnect
\* marks nobody disconnected, starts no Disconnect Guard (none is created and
\* no handling is left suspended to create one) and leaves the room in the
\* directory.
C26_ReplacedConnection ==
    [][\A ws \in Conns :
          Replaced(ws) =>
             /\ \A cell \in Cells :
                   place_stone(ws, cell[1], cell[2]) =>
                      UNCHANGED <<rooms, room, game, timers, guards, hist>>
             /\ handle_disconnect(ws, TRUE) =>
                   /\ UNCHANGED <<rooms, room, game, timers, guards, hist>>
                   /\ conn'[ws].pc = "idle"
      ]_vars

\* Black was moved to connection 3 by a reconnect and connection 1 has closed
\* since: black is still connected, no guard was ever created and no
\* disconnect handling is pending.
C26_Witness ==
    \E o \in Objs :
       /\ rooms[room[o].room_id] = o
       /\ Len(room[o].players) = 2
       /\ room[o].players[1].ws = 3 /\ room[o].players[1].connected
       /\ room[o].players[2].ws = 2 /\ room[o].players[2].connected
       /\ ~conn[1].open /\ conn[1].pc = "idle" /\ ws_to_room[1] = 0
       /\ guards[o] = <<>>
       /\ nreconnects = 1

\* C27: with every ready task eventually run, and whatever the clients do,
\* every room whose game has started eventually has its game over or is out
\* of the directory.
C27_StartedGameEnds ==
    \A o \in 1..MaxRooms :
        (o <= Len(room) /\ room[o].game_started)
            ~> (o <= Len(room)
                  /\ (game[o].is_game_over \/ rooms[room[o].room_id] # o))

\* Nobody moved and nobody left: the Turn Clock ran out, the game is over by
\* timeout and the room is still in the directory.
C27_Witness ==
    \E o \in Objs :
       /\ rooms[room[o].room_id] = o
       /\ room[o].game_started
       /\ game[o].move_count = FourEach.move_count
       /\ hist[o].terminals = <<Terminal("timeout", "white")>>
       /\ \A s \in 1..2 : room[o].players[s].connected
       /\ guards[o] = <<>>

====
